---- MODULE Spec2Model ----
(***************************************************************************)
(* Model of modules/planning/pipeline/feature_generator.cc: the            *)
(* FeatureGenerator that turns a stream of localization and chassis        *)
(* samples into learning-data frames, labels them from a sliding window    *)
(* and writes them out in numbered files.                                  *)
(***************************************************************************)
EXTENDS Integers, Sequences, FiniteSets, TLC

(***************************************************************************)
(* Bounds of the model.                                                    *)
(***************************************************************************)
\* largest FLAGS_learning_data_frame_label_sample_interval explored
MaxLabelInterval == 3
\* largest FLAGS_localization_sample_interval_for_trajectory_point explored
MaxPointInterval == 2
\* largest FLAGS_learning_data_frame_num_per_file explored
MaxNumPerFile == 3
\* localization samples accepted in one run
MaxLocalizations == 3
\* chassis samples accepted in one run
MaxChassis == 2
\* calls of Close in one run
MaxCloseCalls == 2
\* writes the output codec fails in one run of the failing-codec specification
MaxWriteFailures == 1

(***************************************************************************)
(* Samples.  A pose carries the fields of LocalizationEstimate::pose that  *)
(* the generator reads; a chassis sample the fields OnChassis reads.       *)
(* Vectors are <<x, y, z>>.                                                *)
(***************************************************************************)
\* a message field of a frame that was never written (protobuf has_ = false)
Unset == [is_set |-> FALSE]

Poses ==
  { [position |-> <<0, 0, 0>>, heading |-> 0,
     linear_velocity |-> <<3, 4, 0>>, linear_acceleration |-> <<0, 0, 0>>,
     angular_velocity |-> <<0, 0, 0>>],
    [position |-> <<1, 2, 3>>, heading |-> 1,
     linear_velocity |-> <<3, 4, 12>>, linear_acceleration |-> <<6, 8, 0>>,
     angular_velocity |-> <<0, 0, 1>>] }

ChassisSamples ==
  { [speed_mps |-> 5, throttle_percentage |-> 10, brake_percentage |-> 0,
     steering_percentage |-> 0, gear_location |-> "GEAR_DRIVE"],
    [speed_mps |-> 0, throttle_percentage |-> 0, brake_percentage |-> 30,
     steering_percentage |-> 7, gear_location |-> "GEAR_NEUTRAL"] }

VARIABLES
  \* the flags, fixed when the process starts
  FLAGS_learning_data_frame_label_sample_interval,
  FLAGS_learning_data_frame_num_per_file,
  FLAGS_localization_sample_interval_for_trajectory_point,
  FLAGS_localization_move_window_step,
  \* the members of FeatureGenerator
  learning_data_,                  \* sequence of frames (LearningData)
  learning_data_frame_,            \* index into learning_data_, 0 = nullptr
  localization_for_label_,         \* std::list of poses
  learning_data_file_index_,
  total_learning_data_frame_num_,
  \* the output directory: one record per WriteOutLearningData call, in order
  written,
  \* the environment: how many more writes the output codec will fail
  codec_failures_left,
  \* the last call and what it signalled
  lastCall,
  signal,
  \* history: the frames on which GenerateTrajectoryLabel ran (as they were
  \* after it), with the window that labelled each and the chassis samples
  \* the frame received while open
  closedFrames,
  openChassis,                     \* chassis samples given to the open frame
  ingested,                        \* the estimates accepted, in arrival order
  \* counters bounding the run
  nLocalization, nChassis, nClose

flags == << FLAGS_learning_data_frame_label_sample_interval,
            FLAGS_learning_data_frame_num_per_file,
            FLAGS_localization_sample_interval_for_trajectory_point,
            FLAGS_localization_move_window_step >>

members == << learning_data_, learning_data_frame_, localization_for_label_,
              learning_data_file_index_, total_learning_data_frame_num_ >>

history == << closedFrames, openChassis, ingested >>

counters == << nLocalization, nChassis, nClose >>

vars == << flags, members, written, codec_failures_left, lastCall, signal,
          history, counters >>

\* the names the specification uses for the four flags
T_label == FLAGS_learning_data_frame_label_sample_interval
F_max == FLAGS_learning_data_frame_num_per_file
T_stride == FLAGS_localization_sample_interval_for_trajectory_point
W_step == FLAGS_localization_move_window_step

(***************************************************************************)
(* Pure helpers.                                                           *)
(***************************************************************************)
\* std::sqrt on the values the model uses (sums of squares that are squares)
Sqrt(n) == CHOOSE r \in 0..n : r * r <= n /\ (r + 1) * (r + 1) > n

\* a LearningDataFrame as add_learning_data() creates it
NewLearningDataFrame ==
  [localization_feature |-> Unset,
   chassis_feature |-> Unset,
   label_trajectory_points |-> << >>]

\* v and a taken over all three components of the vectors
TrajectoryPoint_FullNorm(le) ==
  [path_point |-> [x |-> le.position[1], y |-> le.position[2],
                   z |-> le.position[3], theta |-> le.heading],
   v |-> Sqrt(le.linear_velocity[1] * le.linear_velocity[1] +
              le.linear_velocity[2] * le.linear_velocity[2] +
              le.linear_velocity[3] * le.linear_velocity[3]),
   a |-> Sqrt(le.linear_acceleration[1] * le.linear_acceleration[1] +
              le.linear_acceleration[2] * le.linear_acceleration[2] +
              le.linear_acceleration[3] * le.linear_acceleration[3])]

\* lines 90-102: the trajectory point built from one localization estimate
TrajectoryPoint(le) ==
  [path_point |-> [x |-> le.position[1], y |-> le.position[2],
                   z |-> le.position[3], theta |-> le.heading],
   v |-> Sqrt(le.linear_velocity[1] * le.linear_velocity[1] +
              le.linear_velocity[2] * le.linear_velocity[2]),
   a |-> Sqrt(le.linear_acceleration[1] * le.linear_acceleration[1] +
              le.linear_acceleration[2] * le.linear_acceleration[2])]

\* lines 84-103: the loop of GenerateTrajectoryLabel over the list from
\* element k on, i being the loop counter before its ++i
RECURSIVE LabelLoop(_, _, _, _, _)
LabelLoop(list, k, i, interval, points) ==
  IF k > Len(list) THEN points
  ELSE IF ((i + 1) % interval) # 0
       THEN LabelLoop(list, k + 1, i + 1, interval, points)
       ELSE LabelLoop(list, k + 1, i + 1, interval,
                      Append(points, TrajectoryPoint(list[k])))

\* the loop counter starting at 0 instead of -1
GenerateTrajectoryLabel_StartAtZero(list, frame, interval) ==
  [frame EXCEPT !.label_trajectory_points =
     LabelLoop(list, 1, 0, interval, @)]

GenerateTrajectoryLabel(list, frame, interval) ==
  [frame EXCEPT !.label_trajectory_points =
     LabelLoop(list, 1, -1, interval, @)]

\* lines 113-119: the localization feature copied from the pose
LocalizationFeature(le) ==
  [position |-> le.position, heading |-> le.heading,
   linear_velocity |-> le.linear_velocity,
   linear_acceleration |-> le.linear_acceleration,
   angular_velocity |-> le.angular_velocity]

\* lines 149-154: the chassis feature copied from the chassis message
ChassisFeature(chassis) ==
  [speed_mps |-> chassis.speed_mps,
   throttle_percentage |-> chassis.throttle_percentage,
   brake_percentage |-> chassis.brake_percentage,
   steering_percentage |-> chassis.steering_percentage,
   gear_location |-> chassis.gear_location]

\* the whole list dropped instead of n elements
PopFront_Clear(list, n) == << >>

\* one element too few popped
PopFront_OneLess(list, n) ==
  IF n = 0 THEN list ELSE SubSeq(list, n, Len(list))

\* one element too many popped
PopFront_OneMore(list, n) ==
  IF n + 1 >= Len(list) THEN << >> ELSE SubSeq(list, n + 2, Len(list))

\* lines 126-128: pop_front() n times
PopFront(list, n) == SubSeq(list, n + 1, Len(list))

\* lines 70-72 and 133-135: the file name, by its index
FileName(index) == << "/learning_data.", index, ".bin" >>

\* lines 60-67: one call of WriteOutLearningData: the file it names, what it
\* serializes, and what SetProtoToBinaryFile / SetProtoToASCIIFile returns
\* (ok = FALSE: no file is left); the function itself returns nothing
WriteOutLearningData(learning_data, file_name, ok) ==
  [file_name |-> file_name, learning_data |-> learning_data, ok |-> ok]

\* lines 63 and 65: what the codec may return on the next write
WriteOutcomes == IF codec_failures_left > 0 THEN {TRUE, FALSE} ELSE {TRUE}

\* the failures the codec has left after a write that returned ok
FailuresLeftAfter(ok) ==
  IF ok THEN codec_failures_left ELSE codec_failures_left - 1

(***************************************************************************)
(* The state after construction.  The flags are those of lines 30-44; the  *)
(* members start as the class declares them: no frame, frame pointer null, *)
(* empty list, both counters 0.                                            *)
(***************************************************************************)
FlagValues ==
  { f \in [label_sample_interval : 1..MaxLabelInterval,
           num_per_file : 1..MaxNumPerFile,
           point_interval : 1..MaxPointInterval,
           move_window_step : 0..MaxLabelInterval] :
      f.move_window_step <= f.label_sample_interval }

ConstructedWith(failures) ==
  /\ codec_failures_left = failures
  /\ \E f \in FlagValues :
       /\ FLAGS_learning_data_frame_label_sample_interval = f.label_sample_interval
       /\ FLAGS_learning_data_frame_num_per_file = f.num_per_file
       /\ FLAGS_localization_sample_interval_for_trajectory_point = f.point_interval
       /\ FLAGS_localization_move_window_step = f.move_window_step
  /\ learning_data_ = << >>
  /\ learning_data_frame_ = 0
  /\ localization_for_label_ = << >>
  /\ learning_data_file_index_ = 0
  /\ total_learning_data_frame_num_ = 0
  /\ written = << >>
  /\ lastCall = "none"
  /\ signal = "none"
  /\ closedFrames = << >>
  /\ openChassis = << >>
  /\ ingested = << >>
  /\ nLocalization = 0 /\ nChassis = 0 /\ nClose = 0

\* the generator on an output directory where every write succeeds
Constructed == ConstructedWith(0)

\* the generator on an output directory where writes may fail
ConstructedFailing == ConstructedWith(MaxWriteFailures)

(***************************************************************************)
(* FeatureGenerator::Init, lines 57-58.  The caller sets the generator up  *)
(* once, before the stream ends.                                           *)
(***************************************************************************)
Init ==
  /\ learning_data_frame_ = 0
  /\ nClose = 0
  /\ learning_data_' = Append(learning_data_, NewLearningDataFrame)
  /\ learning_data_frame_' = Len(learning_data_) + 1
  /\ openChassis' = << >>
  /\ lastCall' = "Init"
  /\ signal' = "ok"
  /\ UNCHANGED << flags, localization_for_label_, learning_data_file_index_,
                  total_learning_data_frame_num_, written,
                  codec_failures_left, closedFrames, ingested, counters >>

(***************************************************************************)
(* FeatureGenerator::Close, lines 69-78.                                   *)
(***************************************************************************)
\* the index left as it was
NextFileIndex_Same(index) == index

\* lines 75 and 139: ++learning_data_file_index_
NextFileIndex(index) == index + 1

\* lines 73 and 137: total_learning_data_frame_num_ += learning_data_size()
AddToTotal(total, learning_data) == total + Len(learning_data)

Close ==
  /\ nClose < MaxCloseCalls
  /\ nClose' = nClose + 1
  /\ \E ok \in WriteOutcomes :
       /\ written' =
            Append(written,
                   WriteOutLearningData(learning_data_,
                                        FileName(learning_data_file_index_),
                                        ok))
       /\ codec_failures_left' = FailuresLeftAfter(ok)
  /\ total_learning_data_frame_num_' =
       AddToTotal(total_learning_data_frame_num_, learning_data_)
  /\ learning_data_file_index_' = NextFileIndex(learning_data_file_index_)
  /\ lastCall' = "Close"
  /\ signal' = "ok"
  /\ UNCHANGED << flags, learning_data_, learning_data_frame_,
                  localization_for_label_, history, nLocalization,
                  nChassis >>

(***************************************************************************)
(* FeatureGenerator::OnLocalization, lines 106-142.                        *)
(***************************************************************************)
\* the estimate stored before the frame pointer is tested
DropLocalization_PushFirst(le) ==
  /\ signal' = "NoOpenFrame"
  /\ localization_for_label_' = Append(localization_for_label_, le)
  /\ UNCHANGED << flags, learning_data_, learning_data_frame_,
                  learning_data_file_index_, total_learning_data_frame_num_,
                  written, codec_failures_left, history, counters >>

\* lines 108-111: no open frame, the estimate is dropped with an error
DropLocalization(le) ==
  /\ signal' = "NoOpenFrame"
  /\ UNCHANGED << flags, members, written, codec_failures_left, history,
                  counters >>

\* the pointer left on the frame before the added one
OpenFrame_Previous(learning_data) == Len(learning_data) - 1

\* lines 125 and 140: add_learning_data() returns the frame it appended, the
\* last of learning_data_
OpenFrame(learning_data) == Len(learning_data)

\* the test written with > instead of >=
LabelDue_Strict(list) == Len(list) > T_label

\* lines 122-123: the list holds enough estimates to label the frame
LabelDue(list) == Len(list) >= T_label

\* lines 131-132: learning_data_ holds enough frames for one file
FileDue(learning_data) == Len(learning_data) >= F_max

\* the flush working on learning_data_ as it was before the label branch
LearningDataAtFlush_BeforeLabel(before_label, after_label) == before_label

\* lines 122-132: the flush test and the write come after the label branch
\* and read learning_data_ as that branch left it
LearningDataAtFlush(before_label, after_label) == after_label

OnLocalization(le) ==
  /\ lastCall' = "OnLocalization"
  /\ IF learning_data_frame_ = 0
     THEN DropLocalization(le)
     ELSE
       LET ld1 == [learning_data_ EXCEPT
                     ![learning_data_frame_].localization_feature =
                       LocalizationFeature(le)]
           list1 == Append(localization_for_label_, le)
           due == LabelDue(list1)
           labelled == GenerateTrajectoryLabel(list1, ld1[learning_data_frame_],
                                               T_stride)
           ld2 == IF due
                  THEN Append([ld1 EXCEPT ![learning_data_frame_] = labelled],
                              NewLearningDataFrame)
                  ELSE ld1
           frame2 == IF due THEN OpenFrame(ld2) ELSE learning_data_frame_
           list2 == IF due THEN PopFront(list1, W_step) ELSE list1
           ld3 == LearningDataAtFlush(ld1, ld2)
           flush == FileDue(ld3)
       IN /\ nClose = 0
          /\ nLocalization < MaxLocalizations
          /\ nLocalization' = nLocalization + 1
          /\ signal' = "ok"
          /\ localization_for_label_' = list2
          /\ closedFrames' =
               IF due
               THEN Append(closedFrames,
                           [frame |-> labelled, list |-> list1,
                            chassis |-> openChassis,
                            sample |-> nLocalization + 1])
               ELSE closedFrames
          /\ openChassis' = IF due \/ flush THEN << >> ELSE openChassis
          /\ ingested' = Append(ingested, le)
          /\ IF flush
             THEN /\ \E ok \in WriteOutcomes :
                       /\ written' =
                            Append(written,
                                   WriteOutLearningData(
                                     ld3, FileName(learning_data_file_index_),
                                     ok))
                       /\ codec_failures_left' = FailuresLeftAfter(ok)
                  /\ total_learning_data_frame_num_' =
                       AddToTotal(total_learning_data_frame_num_, ld3)
                  /\ learning_data_' = << NewLearningDataFrame >>
                  /\ learning_data_file_index_' =
                       NextFileIndex(learning_data_file_index_)
                  /\ learning_data_frame_' =
                       OpenFrame(<< NewLearningDataFrame >>)
             ELSE /\ learning_data_' = ld2
                  /\ learning_data_frame_' = frame2
                  /\ UNCHANGED << written, codec_failures_left,
                                  total_learning_data_frame_num_,
                                  learning_data_file_index_ >>
          /\ UNCHANGED << flags, nChassis, nClose >>

(***************************************************************************)
(* FeatureGenerator::OnChassis, lines 144-155.                             *)
(***************************************************************************)
\* lines 145-148: no open frame, the message is dropped with an error
DropChassis(chassis) ==
  /\ signal' = "NoOpenFrame"
  /\ UNCHANGED << flags, members, written, codec_failures_left, history,
                  counters >>

\* the chassis feature written only while it is unset
SetChassisFeature_KeepFirst(frame, chassis) ==
  IF frame.chassis_feature = Unset
  THEN [frame EXCEPT !.chassis_feature = ChassisFeature(chassis)]
  ELSE frame

\* lines 149-154: every field of the open frame's chassis feature is set
SetChassisFeature(frame, chassis) ==
  [frame EXCEPT !.chassis_feature = ChassisFeature(chassis)]

OnChassis(chassis) ==
  /\ lastCall' = "OnChassis"
  /\ IF learning_data_frame_ = 0
     THEN DropChassis(chassis)
     ELSE /\ nClose = 0
          /\ nChassis < MaxChassis
          /\ nChassis' = nChassis + 1
          /\ signal' = "ok"
          /\ learning_data_' =
               [learning_data_ EXCEPT
                  ![learning_data_frame_] = SetChassisFeature(@, chassis)]
          /\ openChassis' = Append(openChassis, chassis)
          /\ UNCHANGED << flags, learning_data_frame_, localization_for_label_,
                          learning_data_file_index_,
                          total_learning_data_frame_num_, written,
                          codec_failures_left, closedFrames, ingested,
                          nLocalization, nClose >>

(***************************************************************************)
(* The generator's caller: Init, the samples of the stream in any order    *)
(* (ProcessOfflineData, lines 165-177), and Close when the stream has      *)
(* ended; samples that arrive before Init are dropped.                     *)
(***************************************************************************)
Next ==
  \/ Init
  \/ Close
  \/ \E le \in Poses : OnLocalization(le)
  \/ \E chassis \in ChassisSamples : OnChassis(chassis)

Spec == Constructed /\ [][Next]_vars

\* the same generator and caller, on an output directory where writes may fail
SpecCodec == ConstructedFailing /\ [][Next]_vars

(***************************************************************************)
(* Vocabulary of the properties.                                           *)
(***************************************************************************)
\* the frames on which GenerateTrajectoryLabel has run
ClosedFrameSet == { closedFrames[k].frame : k \in 1..Len(closedFrames) }

\* how many frames of a LearningData are closed frames
NumClosed(learning_data) ==
  Cardinality({ k \in 1..Len(learning_data) :
                  learning_data[k] \in ClosedFrameSet })

\* Init has run: a frame is open
Initialised == learning_data_frame_ # 0

\* an initialised generator whose stream has been finalized by one Close
FinalizedOnce == Initialised /\ nClose = 1

\* the last accepted localization estimate closed a frame, and no estimate
\* has been accepted since
JustClosed ==
  /\ closedFrames # << >>
  /\ closedFrames[Len(closedFrames)].sample = nLocalization

Ceil(a, b) == (a + b - 1) \div b

(***************************************************************************)
(* C1.  After any calls of Init, OnLocalization and OnChassis followed by  *)
(* one Close, the cumulative total of flushed frames equals the number of  *)
(* frames that were closed.  The code contradicts it: the total counts     *)
(* every element of learning_data_, the open frame included.               *)
(***************************************************************************)
C1_TotalIsClosedFrames ==
  FinalizedOnce => total_learning_data_frame_num_ = Len(closedFrames)

(***************************************************************************)
(* C2.  After one Close, every file but the last holds exactly F_max       *)
(* frames, the last holds (closed frames mod F_max) frames, and no last    *)
(* file is written when that remainder is 0.  The code contradicts it:     *)
(* Close always writes a file, and files hold the open frame too.          *)
(***************************************************************************)
C2_FileSizes ==
  FinalizedOnce =>
    LET total == Len(closedFrames)
        full == total \div F_max
        rest == total % F_max
    IN /\ Len(written) = full + (IF rest = 0 THEN 0 ELSE 1)
       /\ \A k \in 1..Len(written) :
            Len(written[k].learning_data) = (IF k <= full THEN F_max ELSE rest)

(***************************************************************************)
(* C3.  A file is written by OnLocalization only when F_max closed frames  *)
(* are pending: every file written before the stream ends holds F_max      *)
(* closed frames.  The code contradicts it: the threshold counts the open  *)
(* frame, so a file is written with fewer closed frames.                   *)
(***************************************************************************)
C3_FlushOnlyAtFMaxClosed ==
  (Initialised /\ nClose = 0) =>
    \A k \in 1..Len(written) : NumClosed(written[k].learning_data) = F_max

(***************************************************************************)
(* C4.  From a freshly initialised generator no frame closes before the    *)
(* T_label-th accepted estimate; that estimate closes exactly one frame,   *)
(* the first, whose label holds ceil(T_label / T_stride) points: the       *)
(* points of the estimates at window positions 0, T_stride, 2*T_stride,    *)
(* ... in arrival order.                                                   *)
(***************************************************************************)
C4_FirstFrameLabel ==
  /\ nLocalization < T_label => closedFrames = << >>
  /\ nLocalization = T_label => Len(closedFrames) = 1
  /\ nLocalization >= T_label =>
       /\ closedFrames # << >>
       /\ closedFrames[1].sample = T_label
       /\ LET points == closedFrames[1].frame.label_trajectory_points
          IN /\ Len(points) = Ceil(T_label, T_stride)
             /\ \A k \in 1..Len(points) :
                  /\ (k - 1) * T_stride + 1 <= T_label
                  /\ points[k] =
                       TrajectoryPoint(ingested[(k - 1) * T_stride + 1])

\* three estimates, the middle one unlike the other two, labelled with
\* stride 2 into two points
C4_Witness ==
  /\ T_label = 3 /\ T_stride = 2
  /\ nLocalization = 3
  /\ Len(closedFrames) = 1
  /\ Len(closedFrames[1].frame.label_trajectory_points) = 2
  /\ ingested[1] = ingested[3]
  /\ ingested[2] # ingested[1]

(***************************************************************************)
(* C5, as stated.  After every frame close the list has lost exactly       *)
(* W_step elements from its front and holds T_label - W_step elements when *)
(* OnLocalization returns.  It fails for W_step = 0: the list is never     *)
(* trimmed, so from the second close on it holds more than T_label.        *)
(***************************************************************************)
C5_WindowAfterClose ==
  JustClosed =>
    /\ Len(localization_for_label_) = T_label - W_step
    /\ localization_for_label_ =
         SubSeq(closedFrames[Len(closedFrames)].list, W_step + 1,
                Len(closedFrames[Len(closedFrames)].list))

(***************************************************************************)
(* C5, amended.  When 1 <= W_step <= T_label, after every frame close the  *)
(* list has lost exactly W_step elements from its front and holds          *)
(* T_label - W_step elements when OnLocalization returns.                  *)
(***************************************************************************)
C5_WindowAfterClose_Amended ==
  (JustClosed /\ W_step >= 1 /\ W_step <= T_label) =>
    /\ Len(localization_for_label_) = T_label - W_step
    /\ localization_for_label_ =
         SubSeq(closedFrames[Len(closedFrames)].list, W_step + 1,
                Len(closedFrames[Len(closedFrames)].list))

\* a second close has just happened and left a non-empty list
C5_Witness ==
  /\ JustClosed
  /\ Len(closedFrames) = 2
  /\ W_step >= 1
  /\ W_step < T_label
  /\ localization_for_label_ # << >>

(***************************************************************************)
(* C6.  The chassis snapshot of a closed frame is the last chassis sample  *)
(* the frame received while it was open, never an earlier one; the same    *)
(* holds of the frame that is open now.                                    *)
(***************************************************************************)
C6_LastChassisWins ==
  /\ \A k \in 1..Len(closedFrames) :
       LET c == closedFrames[k].chassis
       IN c # << >> =>
            closedFrames[k].frame.chassis_feature = ChassisFeature(c[Len(c)])
  /\ (Initialised /\ openChassis # << >>) =>
       learning_data_[learning_data_frame_].chassis_feature =
         ChassisFeature(openChassis[Len(openChassis)])

\* a frame closed after receiving two different chassis samples
C6_Witness ==
  \E k \in 1..Len(closedFrames) :
    LET c == closedFrames[k].chassis
    IN /\ Len(c) = 2
       /\ c[1] # c[2]
       /\ closedFrames[k].frame.chassis_feature = ChassisFeature(c[2])
       /\ closedFrames[k].frame.chassis_feature # ChassisFeature(c[1])

(***************************************************************************)
(* C7.  A Close called while learning_data_ holds no closed frame writes   *)
(* no file and leaves the file index and the cumulative total unchanged.   *)
(* The code contradicts it: Close writes, counts and increments always.    *)
(***************************************************************************)
C7_CloseOfEmptyBatchIsNoOp ==
  [][(Initialised /\ lastCall' = "Close" /\ nClose' = nClose + 1
        /\ NumClosed(learning_data_) = 0)
      => UNCHANGED << written, learning_data_file_index_,
                      total_learning_data_frame_num_ >>]_vars

(***************************************************************************)
(* C8.  Every frame in every written file is a closed frame: one on which  *)
(* GenerateTrajectoryLabel has run.  The code contradicts it: each file    *)
(* holds the whole of learning_data_, the open frame included.             *)
(***************************************************************************)
C8_OnlyClosedFramesWritten ==
  \A k \in 1..Len(written) :
    \A j \in 1..Len(written[k].learning_data) :
      written[k].learning_data[j] \in ClosedFrameSet

(***************************************************************************)
(* C9.  The k-th call of WriteOutLearningData (k = 0, 1, 2, ...), by a     *)
(* threshold flush or by Close, names its file by index k, and the file    *)
(* index equals the number of files written so far: no index is used       *)
(* twice and none is skipped.                                              *)
(***************************************************************************)
C9_FileIndexSequence ==
  /\ learning_data_file_index_ = Len(written)
  /\ \A k \in 1..Len(written) : written[k].file_name = FileName(k - 1)
  /\ \A j, k \in 1..Len(written) :
       j # k => written[j].file_name # written[k].file_name

\* files 0 and 1 written by threshold flushes, file 2 by Close
C9_Witness ==
  /\ Len(written) = 3
  /\ nClose = 1
  /\ written[3].file_name = FileName(2)

(***************************************************************************)
(* C10.  A call of OnLocalization or OnChassis made while no frame is open *)
(* (the frame pointer is null) only signals the error: the sample is       *)
(* dropped and the list, learning_data_, the file index, the cumulative    *)
(* total and the files are unchanged; no frame closes.                     *)
(***************************************************************************)
C10_NoOpenFrameIsNoOp ==
  [][(learning_data_frame_ = 0
        /\ lastCall' \in {"OnLocalization", "OnChassis"})
      => /\ signal' = "NoOpenFrame"
         /\ UNCHANGED << members, written, history, counters >>]_vars

\* an estimate was dropped after a Close had already written a file
C10_Witness ==
  /\ lastCall = "OnLocalization"
  /\ signal = "NoOpenFrame"
  /\ learning_data_frame_ = 0
  /\ localization_for_label_ = << >>
  /\ Len(written) = 1

(***************************************************************************)
(* C11.  When the codec fails to write during a threshold flush or Close,  *)
(* the call signals a hard error to its caller and the frames of the       *)
(* failed write are not counted as flushed nor discarded.  The code        *)
(* contradicts it: WriteOutLearningData drops what the codec returns, so   *)
(* the call ends as a success, the total grows and the batch is cleared.   *)
(***************************************************************************)
\* the step made a write and the codec failed it
WriteFailedInStep ==
  /\ Len(written') = Len(written) + 1
  /\ ~written'[Len(written')].ok

C11_WriteFailurePropagates ==
  [][(Initialised /\ WriteFailedInStep)
      => /\ signal' = "SerializationFailure"
         /\ total_learning_data_frame_num_' = total_learning_data_frame_num_
         /\ \A k \in 1..Len(closedFrames') :
              \/ \E j \in 1..Len(learning_data_') :
                   learning_data_'[j] = closedFrames'[k].frame
              \/ \E f \in 1..Len(written) :
                   /\ written[f].ok
                   /\ \E j \in 1..Len(written[f].learning_data) :
                        written[f].learning_data[j] = closedFrames'[k].frame]_vars

(***************************************************************************)
(* C12.  One call of OnLocalization closes at most one frame and writes at *)
(* most one file; when it does both, the close comes first: the file holds *)
(* the frame just labelled, followed by the new open frame the close       *)
(* added, and the list has already been trimmed.  A call of OnChassis      *)
(* closes no frame and writes no file.                                     *)
(***************************************************************************)
C12_OneCloseThenOneFlush ==
  [][/\ lastCall' = "OnLocalization" =>
          /\ Len(closedFrames') <= Len(closedFrames) + 1
          /\ Len(written') <= Len(written) + 1
          /\ (Len(closedFrames') > Len(closedFrames)
                /\ Len(written') > Len(written)) =>
               LET file == written'[Len(written')].learning_data
                   closed == closedFrames'[Len(closedFrames')]
               IN /\ Len(file) >= 2
                  /\ file[Len(file) - 1] = closed.frame
                  /\ file[Len(file)] = NewLearningDataFrame
                  /\ localization_for_label_' = PopFront(closed.list, W_step)
     /\ lastCall' = "OnChassis" =>
          UNCHANGED << closedFrames, written, localization_for_label_,
                       learning_data_file_index_,
                       total_learning_data_frame_num_ >>]_vars

\* the last estimate both closed a frame and made the batch full
C12_Witness ==
  /\ lastCall = "OnLocalization"
  /\ JustClosed
  /\ learning_data_ = << NewLearningDataFrame >>
  /\ written # << >>
  /\ LET file == written[Len(written)].learning_data
     IN /\ Len(file) = 2
        /\ file[1] = closedFrames[Len(closedFrames)].frame

(***************************************************************************)
(* C13.  Vocabulary: the label points produced so far, each with the       *)
(* estimate it was derived from (the element of the labelling list at the  *)
(* point's stride position).                                               *)
(***************************************************************************)
LabelledPairs ==
  UNION { { [point |-> closedFrames[k].frame.label_trajectory_points[j],
             le |-> closedFrames[k].list[(j - 1) * T_stride + 1]] :
              j \in 1..Len(closedFrames[k].frame.label_trajectory_points) } :
          k \in 1..Len(closedFrames) }

\* squared Euclidean norm of a vector <<x, y, z>>
NormSquared(vec) == vec[1] * vec[1] + vec[2] * vec[2] + vec[3] * vec[3]

\* squared Euclidean norm of its x and y components
PlanarNormSquared(vec) == vec[1] * vec[1] + vec[2] * vec[2]

PathPointOf(le) ==
  [x |-> le.position[1], y |-> le.position[2], z |-> le.position[3],
   theta |-> le.heading]

(***************************************************************************)
(* C13, as stated.  Each label point carries its estimate's (x, y, z,      *)
(* heading), v is the Euclidean norm of the full linear velocity vector    *)
(* and a that of the full linear acceleration vector, so estimates whose   *)
(* velocity (acceleration) norms differ never yield the same v (a).  It    *)
(* fails: the z components are not used.                                   *)
(***************************************************************************)
C13_PointUsesFullNorm ==
  /\ \A p \in LabelledPairs :
       /\ p.point.path_point = PathPointOf(p.le)
       /\ p.point.v >= 0
       /\ p.point.v * p.point.v = NormSquared(p.le.linear_velocity)
       /\ p.point.a >= 0
       /\ p.point.a * p.point.a = NormSquared(p.le.linear_acceleration)
  /\ \A p, q \in LabelledPairs :
       /\ NormSquared(p.le.linear_velocity) # NormSquared(q.le.linear_velocity)
            => p.point.v # q.point.v
       /\ NormSquared(p.le.linear_acceleration) #
            NormSquared(q.le.linear_acceleration)
            => p.point.a # q.point.a

(***************************************************************************)
(* C13, amended.  Each label point carries its estimate's (x, y, z,        *)
(* heading), v is the Euclidean norm of the x and y components of the      *)
(* linear velocity and a that of the x and y components of the linear      *)
(* acceleration, so estimates whose planar velocity (acceleration) norms   *)
(* differ never yield the same v (a), and equal estimates yield equal      *)
(* points.                                                                 *)
(***************************************************************************)
C13_PointUsesPlanarNorm ==
  /\ \A p \in LabelledPairs :
       /\ p.point.path_point = PathPointOf(p.le)
       /\ p.point.v >= 0
       /\ p.point.v * p.point.v = PlanarNormSquared(p.le.linear_velocity)
       /\ p.point.a >= 0
       /\ p.point.a * p.point.a = PlanarNormSquared(p.le.linear_acceleration)
  /\ \A p, q \in LabelledPairs :
       /\ p.le = q.le => p.point = q.point
       /\ PlanarNormSquared(p.le.linear_velocity) #
            PlanarNormSquared(q.le.linear_velocity)
            => p.point.v # q.point.v
       /\ PlanarNormSquared(p.le.linear_acceleration) #
            PlanarNormSquared(q.le.linear_acceleration)
            => p.point.a # q.point.a

\* points exist for two estimates whose velocity norms differ (5 and 13)
\* and whose planar acceleration norms differ (0 and 10)
C13_Witness ==
  \E p, q \in LabelledPairs :
    /\ p.le.linear_velocity[3] # 0
    /\ q.le.linear_velocity[3] = 0
    /\ NormSquared(p.le.linear_velocity) # NormSquared(q.le.linear_velocity)
    /\ p.point.v = q.point.v
    /\ p.point.a # q.point.a

(***************************************************************************)
(* C14.  Close flushes as a threshold flush does, clearing the batch: when *)
(* it returns learning_data_ holds no closed frame, and a second Close     *)
(* with no sample in between writes no further frame and leaves the        *)
(* cumulative total unchanged.  The code contradicts it: Close never       *)
(* clears learning_data_, so a second Close writes and counts the same     *)
(* frames again.                                                           *)
(***************************************************************************)
C14_CloseClearsBatch ==
  [][(Initialised /\ lastCall' = "Close" /\ nClose' = nClose + 1)
      => /\ NumClosed(learning_data_') = 0
         /\ nClose >= 1 =>
              /\ total_learning_data_frame_num_' =
                   total_learning_data_frame_num_
              /\ \/ written' = written
                 \/ written'[Len(written')].learning_data = << >>]_vars

(***************************************************************************)
(* C15 to C19 are stated for flags with 1 <= W_step <= T_label.            *)
(***************************************************************************)
StepInRange == W_step >= 1 /\ W_step <= T_label

(***************************************************************************)
(* C15.  For 1 <= W_step <= T_label, the lists that labelled consecutive   *)
(* closed frames each hold T_label estimates and overlap by exactly        *)
(* T_label - W_step: the last T_label - W_step estimates of the one are,   *)
(* in order, the first T_label - W_step of the next, which ends W_step     *)
(* estimates later in the stream; with W_step = T_label they share no      *)
(* estimate of the stream.                                                 *)
(***************************************************************************)
C15_WindowsOverlap ==
  StepInRange =>
    /\ \A k \in 1..Len(closedFrames) :
         /\ Len(closedFrames[k].list) = T_label
         /\ closedFrames[k].sample >= T_label
         /\ closedFrames[k].list =
              SubSeq(ingested, closedFrames[k].sample - T_label + 1,
                     closedFrames[k].sample)
    /\ \A k \in 1..(Len(closedFrames) - 1) :
         /\ closedFrames[k + 1].sample = closedFrames[k].sample + W_step
         /\ SubSeq(closedFrames[k].list, W_step + 1, T_label) =
              SubSeq(closedFrames[k + 1].list, 1, T_label - W_step)
         /\ W_step = T_label =>
              closedFrames[k + 1].sample - T_label + 1 > closedFrames[k].sample

\* two frames closed whose lists share one estimate, the lists being unlike
C15_Witness ==
  /\ StepInRange
  /\ T_label = 2 /\ W_step = 1
  /\ Len(closedFrames) = 2
  /\ closedFrames[1].list # closedFrames[2].list
  /\ closedFrames[1].list[2] = closedFrames[2].list[1]

(***************************************************************************)
(* C16.  For 1 <= W_step <= T_label, the list of estimates never holds     *)
(* more than T_label elements: it holds fewer than T_label whenever        *)
(* OnLocalization has returned, the list a frame is labelled from holds at *)
(* most T_label, and the W_step elements popped at a close are all there   *)
(* (the list is never popped while empty).                                 *)
(***************************************************************************)
C16_WindowBounded ==
  StepInRange =>
    /\ Len(localization_for_label_) < T_label
    /\ \A k \in 1..Len(closedFrames) :
         /\ Len(closedFrames[k].list) <= T_label
         /\ W_step <= Len(closedFrames[k].list)

\* a frame has just been closed and estimates were left in the list
C16_Witness ==
  /\ StepInRange
  /\ JustClosed
  /\ localization_for_label_ # << >>
  /\ Len(localization_for_label_) = T_label - W_step

(***************************************************************************)
(* C17.  Once Init has run, every call (OnLocalization, OnChassis, Close,  *)
(* with or without a frame closed or a file written) leaves the frame      *)
(* pointer non-null and on the last frame of learning_data_, and no call   *)
(* takes the null-pointer branch.                                          *)
(***************************************************************************)
C17_OpenFrameAlwaysExists ==
  [][(lastCall' = "Init" \/ Initialised)
      => /\ learning_data_frame_' # 0
         /\ learning_data_frame_' = Len(learning_data_')
         /\ signal' # "NoOpenFrame"]_vars

\* a file written by a flush, a frame closed after it, and Close called
C17_Witness ==
  /\ Initialised
  /\ lastCall = "Close"
  /\ nClose = 1
  /\ Len(written) >= 2
  /\ NumClosed(learning_data_) >= 1
  /\ learning_data_frame_ = Len(learning_data_)

\* the files the codec left behind, in the order they were written, which is
\* the order of their indices
FilesLeft == SelectSeq(written, LAMBDA w : w.ok)

\* the closed frames met when the files are read one after the other
RECURSIVE ClosedFramesRead(_)
ClosedFramesRead(files) ==
  IF files = << >>
  THEN << >>
  ELSE SelectSeq(Head(files).learning_data,
                 LAMBDA frame : frame \in ClosedFrameSet)
         \o ClosedFramesRead(Tail(files))

\* the closed frames in the order OnLocalization closed them
ClosedInOrder == [k \in 1..Len(closedFrames) |-> closedFrames[k].frame]

(***************************************************************************)
(* C18.  After a stream and one Close, the files read by increasing index  *)
(* hold the closed frames in the order they were closed, each one once:    *)
(* none is lost, duplicated or reordered.  The code contradicts it when    *)
(* the codec fails a write: the frames of that batch are cleared all the   *)
(* same and are in no file.                                                *)
(***************************************************************************)
C18_ClosedFramesWrittenOnce ==
  FinalizedOnce =>
    /\ \A k \in 1..Len(written) : written[k].file_name = FileName(k - 1)
    /\ ClosedFramesRead(FilesLeft) = ClosedInOrder

(***************************************************************************)
(* C19.  For 1 <= W_step <= T_label, counting the estimates accepted after *)
(* Init: the first frame closes on estimate number T_label and each later  *)
(* one W_step estimates after the one before, so after n estimates the     *)
(* number of closed frames is 0 if n < T_label and                         *)
(* 1 + (n - T_label) \div W_step otherwise, whatever chassis samples came  *)
(* in between and whenever files were written.                             *)
(***************************************************************************)
C19_CloseCount ==
  StepInRange =>
    /\ \A k \in 1..Len(closedFrames) :
         closedFrames[k].sample = T_label + (k - 1) * W_step
    /\ Len(closedFrames) =
         IF nLocalization < T_label
         THEN 0
         ELSE 1 + (nLocalization - T_label) \div W_step

\* two frames closed, the first not on the first estimate, with a chassis
\* sample taken in and a file written on the way
C19_Witness ==
  /\ StepInRange
  /\ T_label >= 2
  /\ Len(closedFrames) = 2
  /\ nChassis >= 1
  /\ written # << >>
  /\ nClose = 0

====
